---- MODULE Spec2Model ----
(***************************************************************************)
(* A model of fabfile.py: the template synchronizer                        *)
(* (upload_template_and_reload) and the deployment tasks built on it       *)
(* (install, create, remove, restart, deploy, rollback, all).              *)
(*                                                                         *)
(* File contents are sequences of tokens: one-character strings, and the   *)
(* %(key)s placeholders of Python's string formatting.  Every task is one  *)
(* action: fabric runs the remote calls of a task one after the other and  *)
(* aborts the task at the first call that fails.                           *)
(***************************************************************************)
EXTENDS Integers, Sequences, FiniteSets, TLC

VARIABLES
    templates,   \* the registry: template name -> descriptor
    local,       \* template name -> raw content of the local template file
    remote,      \* template name -> [exists, data] of the file at remote_path
    env,         \* fabric's env: variable name -> value
    projExists,  \* whether env.proj_path exists on the server
    head,        \* the revision checked out in env.proj_path
    lastCommit,  \* the content of last.commit (NoCommit: no such file)
    last,        \* the task run last: its name, argument, remote calls, outcome
    remote_data, \* change detection alone: the remote side
    local_data,  \* change detection alone: the rendered local side
    decision     \* change detection alone: what the comparison decided

vars == <<templates, local, remote, env, projExists, head, lastCommit, last,
          remote_data, local_data, decision>>

-----------------------------------------------------------------------------
(* Bounds *)

\* revisions of the repository are 0..MaxRev
MaxRev == 1
\* change detection alone is run on every string of at most this length
MaxCleanLen == 3

-----------------------------------------------------------------------------
(* Strings *)

\* the characters str.strip() removes from both ends
Whitespace == {" ", "\t", "\n", "\r"}

\* s.replace(ch, "")
RECURSIVE replace(_, _)
replace(s, ch) ==
    IF s = <<>> THEN <<>>
    ELSE IF Head(s) = ch THEN replace(Tail(s), ch)
    ELSE <<Head(s)>> \o replace(Tail(s), ch)

RECURSIVE lstrip(_)
lstrip(s) ==
    IF s = <<>> THEN <<>>
    ELSE IF Head(s) \in Whitespace THEN lstrip(Tail(s))
    ELSE s

RECURSIVE rstrip(_)
rstrip(s) ==
    IF s = <<>> THEN <<>>
    ELSE IF s[Len(s)] \in Whitespace THEN rstrip(SubSeq(s, 1, Len(s) - 1))
    ELSE s

\* s.strip()
strip(s) == rstrip(lstrip(s))

\* a clean that forgets the carriage returns
cleanKeepsCR(s) == strip(replace(s, "\n"))

\* clean = lambda s: s.replace("\n", "").replace("\r", "").strip()
clean(s) == strip(replace(replace(s, "\n"), "\r"))

\* the comparison of upload_template_and_reload: TRUE when it goes on to upload
changed(r, l) == clean(r) # clean(l)

-----------------------------------------------------------------------------
(* Placeholders and env *)

\* the %(key)s placeholders a file or a descriptor may hold
Placeholders == {"%(proj_name)s", "%(live_host)s", "%(db_pass)s", "%(nokey)s"}

\* the key a placeholder names
KeyOf(tok) ==
    CASE tok = "%(proj_name)s" -> "proj_name"
      [] tok = "%(live_host)s" -> "live_host"
      [] tok = "%(db_pass)s" -> "db_pass"
      [] tok = "%(nokey)s" -> "nokey"

\* env as the config setup leaves it: proj_name and live_host are always set,
\* db_pass is not
envInit == [proj_name |-> <<"p">>, live_host |-> <<"h">>]

\* whether s % e finds every key it names
Renderable(s, e) ==
    \A i \in 1..Len(s) : s[i] \in Placeholders => KeyOf(s[i]) \in DOMAIN e

\* s % e, for an s that is Renderable
RECURSIVE Format(_, _)
Format(s, e) ==
    IF s = <<>> THEN <<>>
    ELSE (IF Head(s) \in Placeholders THEN e[KeyOf(Head(s))] ELSE <<Head(s)>>)
         \o Format(Tail(s), e)

\* "%(db_pass)s" in local_data
HasMarker(s) == \E i \in 1..Len(s) : s[i] = "%(db_pass)s"

-----------------------------------------------------------------------------
(* The registry *)

\* the templates of fabfile.py
templatesInit ==
    [nginx |->
        [local_path |-> <<"deploy/nginx.conf">>,
         remote_path |-> <<"/etc/nginx/sites-enabled/", "%(live_host)s", ".conf">>,
         reload_command |-> <<"service nginx restart">>],
     supervisor |->
        [local_path |-> <<"deploy/supervisor.conf">>,
         remote_path |-> <<"/etc/supervisor/conf.d/", "%(proj_name)s", ".conf">>,
         reload_command |-> <<"supervisorctl reload">>]]

\* Python's None, and the empty string: both are false in an if
None == <<>>

\* d.get(k)
get(d, k) == IF k \in DOMAIN d THEN d[k] ELSE None

-----------------------------------------------------------------------------
(* A task's run: the state it reads and writes, the remote calls it has     *)
(* issued so far (log), the exception that ended it (exc) and the index of  *)
(* the remote call that fails in this run (failAt; 0: none does).           *)

Start(k) ==
    [remote |-> remote, env |-> env, projExists |-> projExists, head |-> head,
     lastCommit |-> lastCommit, log |-> <<>>, exc |-> "none", failAt |-> k,
     result |-> [n \in DOMAIN templates |-> "none"]]

Ok(c) == c.exc = "none"

\* an exception leaves the task
Raise(c, e) == IF Ok(c) THEN [c EXCEPT !.exc = e] ELSE c

\* a remote call that goes on after the command has failed (warn_only)
issueWarnOnly(c, kind, cmd, arg, nonzero) ==
    IF ~Ok(c) THEN c
    ELSE LET bad == nonzero \/ Len(c.log) + 1 = c.failAt
         IN  [c EXCEPT !.log = Append(@, [kind |-> kind, cmd |-> cmd, arg |-> arg,
                                          out |-> IF bad THEN "failed" ELSE "ok"])]

\* fabric's _run and _sudo: the command is issued, and the task is aborted
\* when it fails (nonzero: the command fails whatever the connection does)
issue(c, kind, cmd, arg, nonzero) ==
    IF ~Ok(c) THEN c
    ELSE LET bad == nonzero \/ Len(c.log) + 1 = c.failAt
         IN  [c EXCEPT !.log = Append(@, [kind |-> kind, cmd |-> cmd, arg |-> arg,
                                          out |-> IF bad THEN "failed" ELSE "ok"]),
                       !.exc = IF bad THEN "abort" ELSE "none"]

run(c, cmd, arg, nonzero) == issue(c, "run", cmd, arg, nonzero)

sudo(c, cmd, arg, nonzero) == issue(c, "sudo", cmd, arg, nonzero)

\* fabric's exists(path): answers, and never aborts the task
exists(c, path, answer) ==
    IF ~Ok(c) THEN c
    ELSE [c EXCEPT !.log = Append(@, [kind |-> "exists", cmd |-> "test -e", arg |-> path,
                                      out |-> IF answer THEN "True" ELSE "False"])]

\* db_pass(): the name is bound nowhere in fabfile.py (no def, no import), so
\* the call raises NameError and env.db_pass is not assigned
db_pass(c) == Raise(c, "NameError")

\* get_templates(): every value of every descriptor formatted with env
get_templates(c) ==
    [n \in DOMAIN templates |->
        [k \in DOMAIN templates[n] |-> Format(templates[n][k], c.env)]]

\* an upload of the file as it is, placeholders and all
upload_templateRaw(c, name, context) ==
    LET c1 == issue(c, "put", "upload_template", name, FALSE)
    IN  IF Ok(c1)
        THEN [c1 EXCEPT !.remote[name] = [exists |-> TRUE, data |-> local[name]]]
        ELSE c1

\* fabric's upload_template(local_path, remote_path, env, use_sudo=True,
\* backup=False): the local file formatted with the context replaces the
\* remote file
upload_template(c, name, context) ==
    LET c1 == issue(c, "put", "upload_template", name, FALSE)
    IN  IF Ok(c1)
        THEN [c1 EXCEPT !.remote[name] =
                            [exists |-> TRUE, data |-> Format(local[name], context)]]
        ELSE c1

-----------------------------------------------------------------------------
(* upload_template_and_reload *)

\* chown and chmod issued before the upload
upload_and_reloadOwnerFirst(c, name, template) ==
    LET owner == get(template, "owner")
        mode == get(template, "mode")
        reload_command == get(template, "reload_command")
        c1 == IF owner # None THEN sudo(c, "chown", name, FALSE) ELSE c
        c2 == IF mode # None THEN sudo(c1, "chmod", name, FALSE) ELSE c1
        c3 == upload_template(c2, name, c2.env)
    IN  IF reload_command # None THEN sudo(c3, "reload_command", name, FALSE) ELSE c3

\* the reload command forgotten
upload_and_reloadNoReload(c, name, template) ==
    LET owner == get(template, "owner")
        mode == get(template, "mode")
        c1 == upload_template(c, name, c.env)
        c2 == IF owner # None THEN sudo(c1, "chown", name, FALSE) ELSE c1
    IN  IF mode # None THEN sudo(c2, "chmod", name, FALSE) ELSE c2

\* the upload, then chown, chmod and the reload command, each if the
\* descriptor has it
upload_and_reload(c, name, template) ==
    LET owner == get(template, "owner")
        mode == get(template, "mode")
        reload_command == get(template, "reload_command")
        c1 == upload_template(c, name, c.env)
        c2 == IF owner # None THEN sudo(c1, "chown", name, FALSE) ELSE c1
        c3 == IF mode # None THEN sudo(c2, "chmod", name, FALSE) ELSE c2
    IN  IF reload_command # None THEN sudo(c3, "reload_command", name, FALSE) ELSE c3

\* what a call that returned did: it returned early (Unchanged), or it
\* uploaded over a file that was there (Uploaded) or was not (Created)
SyncResult(uploaded, existed) ==
    IF ~uploaded THEN "Unchanged" ELSE IF existed THEN "Uploaded" ELSE "Created"

\* the reload command outside the comparison: issued when nothing changed too
compare_and_uploadReloads(c, name, template, rdata, ldata, existed) ==
    IF ~changed(rdata, ldata)
    THEN LET c1 == sudo(c, "reload_command", name, FALSE)
         IN  IF Ok(c1) THEN [c1 EXCEPT !.result[name] = SyncResult(FALSE, existed)] ELSE c1
    ELSE LET c1 == upload_and_reload(c, name, template)
         IN  IF Ok(c1) THEN [c1 EXCEPT !.result[name] = SyncResult(TRUE, existed)]
             ELSE c1

\* no early return: the upload whatever the comparison says
compare_and_uploadAlways(c, name, template, rdata, ldata, existed) ==
    LET c1 == upload_and_reload(c, name, template)
    IN  IF Ok(c1) THEN [c1 EXCEPT !.result[name] = SyncResult(TRUE, existed)] ELSE c1

\* the comparison, the early return when nothing changed, the upload otherwise
compare_and_upload(c, name, template, rdata, ldata, existed) ==
    IF ~changed(rdata, ldata)
    THEN [c EXCEPT !.result[name] = SyncResult(FALSE, existed)]
    ELSE LET c1 == upload_and_reload(c, name, template)
         IN  IF Ok(c1) THEN [c1 EXCEPT !.result[name] = SyncResult(TRUE, existed)]
             ELSE c1

\* the local file read and formatted: db_pass() when the raw file holds the
\* marker, KeyError when env lacks a key the file names
read_local(c, name) ==
    LET c1 == IF HasMarker(local[name]) THEN db_pass(c) ELSE c
    IN  IF Ok(c1) /\ ~Renderable(local[name], c1.env) THEN Raise(c1, "KeyError") ELSE c1

upload_template_and_reload(c, name) ==
    IF ~Ok(c) THEN c
    ELSE
    LET template == get_templates(c)[name]
        existed == c.remote[name].exists
        c1 == exists(c, name, existed)
        c2 == IF existed THEN sudo(c1, "cat", name, FALSE) ELSE c1
        rdata == IF existed THEN c.remote[name].data ELSE <<>>
        c3 == IF Ok(c2) THEN read_local(c2, name) ELSE c2
    IN  IF ~Ok(c3) THEN c3
        ELSE compare_and_upload(c3, name, template, rdata,
                                Format(local[name], c3.env), existed)

-----------------------------------------------------------------------------
(* Tasks *)

\* no last.commit file
NoCommit == -1

Revs == 0..MaxRev

\* sequences of the elements of S, each once
Orders(S) ==
    {o \in [1..Cardinality(S) -> S] : \A i, j \in 1..Cardinality(S) : o[i] = o[j] => i = j}

\* what the call before this one returned, when this is a call of
\* upload_template_and_reload that follows, with nothing in between, a call of
\* it for the same template that returned
Before(cmd, arg) ==
    IF cmd = "sync" /\ last.cmd = "sync" /\ last.arg = arg /\ last.exc = "none"
    THEN last.result[arg]
    ELSE "none"

\* the state a finished (or aborted) task leaves
Finish(cmd, arg, c) ==
    /\ remote' = c.remote
    /\ env' = c.env
    /\ projExists' = c.projExists
    /\ head' = c.head
    /\ lastCommit' = c.lastCommit
    /\ last' = [cmd |-> cmd, arg |-> arg, log |-> c.log, exc |-> c.exc,
                result |-> c.result, before |-> Before(cmd, arg)]
    /\ UNCHANGED <<templates, local, remote_data, local_data, decision>>

\* the runs of a task: none of its remote calls fails (0), or one of them
\* does; c0 is the run in which none fails
FailPoints(c0) == {0} \cup {i \in 1..Len(c0.log) : c0.log[i].kind # "exists"}

\* remove(): the remote file of every template, if it is there
RECURSIVE remove_loop(_, _)
remove_loop(c, order) ==
    IF order = <<>> \/ ~Ok(c) THEN c
    ELSE LET name == Head(order)
             existed == c.remote[name].exists
             c1 == exists(c, name, existed)
             c2 == IF existed THEN sudo(c1, "rm", name, FALSE) ELSE c1
             c3 == IF existed /\ Ok(c2)
                   THEN [c2 EXCEPT !.remote[name] = [exists |-> FALSE, data |-> <<>>]]
                   ELSE c2
         IN  remove_loop(c3, Tail(order))

\* upload_template_and_reload(name), called on its own
Sync(name) ==
    \E k \in FailPoints(upload_template_and_reload(Start(0), name)) :
        Finish("sync", name, upload_template_and_reload(Start(k), name))

Remove ==
    \E order \in Orders(DOMAIN templates) :
        \E k \in FailPoints(remove_loop(Start(0), order)) :
            Finish("remove", "", remove_loop(Start(k), order))

-----------------------------------------------------------------------------
(* The synchronizer on its own, for any descriptor *)

\* descriptors with and without an owner, a mode and a reload command
Descriptors ==
    {[k \in {"local_path", "remote_path"}
            \cup (IF o THEN {"owner"} ELSE {})
            \cup (IF m THEN {"mode"} ELSE {})
            \cup (IF r THEN {"reload_command"} ELSE {}) |->
        CASE k = "local_path" -> <<"deploy/nginx.conf">>
          [] k = "remote_path" -> <<"/etc/nginx/sites-enabled/", "%(live_host)s", ".conf">>
          [] k = "owner" -> <<"www-data">>
          [] k = "mode" -> <<"640">>
          [] k = "reload_command" -> <<"service nginx restart">>]
     : o \in BOOLEAN, m \in BOOLEAN, r \in BOOLEAN}

\* local template files
LocalSamples ==
    {<<>>, <<" ", "\n">>, <<"a", "\n">>, <<"a", "\n", "b">>, <<"%(proj_name)s", "\n">>,
     <<"%(db_pass)s">>, <<"a", "%(nokey)s">>}

\* remote files
RemoteSamples ==
    {<<>>, <<"a">>, <<"a", "\r", "\n">>, <<"a", "b">>, <<"b">>, <<"p">>,
     <<"%(proj_name)s", "\n">>}

\* no task has run yet
NoTask ==
    [cmd |-> "none", arg |-> "", log |-> <<>>, exc |-> "none",
     result |-> [n \in DOMAIN templates |-> "none"], before |-> "none"]

InitSync ==
    /\ templates \in {[n \in {"nginx"} |-> d] : d \in Descriptors}
    /\ local \in [DOMAIN templates -> LocalSamples]
    /\ remote \in [DOMAIN templates ->
                    {[exists |-> FALSE, data |-> <<>>]}
                    \cup {[exists |-> TRUE, data |-> d] : d \in RemoteSamples}]
    /\ env = envInit
    /\ projExists = TRUE
    /\ head = 0
    /\ lastCommit = NoCommit
    /\ last = NoTask
    /\ remote_data = <<>>
    /\ local_data = <<>>
    /\ decision = "none"

NextSync ==
    \/ \E name \in DOMAIN templates : Sync(name)
    \/ Remove

SpecSync == InitSync /\ [][NextSync]_vars

-----------------------------------------------------------------------------
(* The deployment tasks *)

\* the commands of install(), of restart() and of deploy() and rollback()
InstallCmds ==
    {"cat /etc/default/locale", "update-locale", "exit", "apt-get update", "apt-get install"}

RestartCmds == {"kill -HUP", "supervisorctl start"}

Record == "git rev-parse HEAD > last.commit"

Pull == "git pull origin master"

Checkout == "git checkout $(cat last.commit)"

\* install(): the locale if /etc/default/locale lacks it, the package index,
\* the packages
install(c, localeSet) ==
    LET c1 == sudo(c, "cat /etc/default/locale", "", FALSE)
        c2 == IF localeSet THEN c1
              ELSE run(sudo(c1, "update-locale", "", FALSE), "exit", "", FALSE)
        c3 == sudo(c2, "apt-get update", "", FALSE)
    IN  sudo(c3, "apt-get install", "", FALSE)

\* create(): git clone into env.proj_path, which fails when the path is there
create(c, rev) ==
    LET c1 == run(c, "git clone", "", c.projExists)
    IN  IF Ok(c1) /\ Ok(c) THEN [c1 EXCEPT !.projExists = TRUE, !.head = rev] ELSE c1

\* restart(): HUP when the pid file is there, a start by supervisor otherwise
restart(c, pid) ==
    LET c1 == exists(c, "/var/run/nginx.pid", pid)
    IN  IF pid THEN sudo(c1, "kill -HUP", "", FALSE)
        ELSE sudo(c1, "supervisorctl start", "", FALSE)

\* for name in get_templates(): upload_template_and_reload(name)
RECURSIVE deploy_loop(_, _)
deploy_loop(c, order) ==
    IF order = <<>> \/ ~Ok(c) THEN c
    ELSE deploy_loop(upload_template_and_reload(c, Head(order)), Tail(order))

\* git rev-parse HEAD > last.commit, in the project's directory
record_commit(c) ==
    LET c1 == run(c, Record, "", ~c.projExists)
    IN  IF Ok(c1) /\ Ok(c) THEN [c1 EXCEPT !.lastCommit = c.head] ELSE c1

\* git pull origin master, in the project's directory: the head moves to the
\* revision origin has
pull(c, rev) ==
    LET c1 == run(c, Pull, "", ~c.projExists)
    IN  IF Ok(c1) /\ Ok(c) THEN [c1 EXCEPT !.head = rev] ELSE c1

\* a deploy that pulls first and records the revision afterwards
deployPullFirst(c, order, rev, pid) ==
    restart(record_commit(pull(deploy_loop(c, order), rev)), pid)

\* deploy(): every template, the revision recorded, the pull, the restart
deploy(c, order, rev, pid) ==
    restart(pull(record_commit(deploy_loop(c, order)), rev), pid)

\* git checkout $(cat last.commit), in the project's directory; without a
\* last.commit file the command is a plain git checkout, which moves nothing
checkout_last(c) ==
    LET c1 == run(c, Checkout, "", ~c.projExists)
    IN  IF Ok(c1) /\ Ok(c) /\ c.lastCommit # NoCommit
        THEN [c1 EXCEPT !.head = c.lastCommit]
        ELSE c1

\* rollback(): the recorded revision checked out, the restart
rollback(c, pid) == restart(checkout_last(c), pid)

\* an all that deploys whatever create did
allIgnoringCreate(c, localeSet, cloned, order, rev, pid) ==
    LET c1 == install(c, localeSet)
        c2 == create(c1, cloned)
    IN  IF Ok(c1) THEN deploy([c2 EXCEPT !.exc = "none"], order, rev, pid) ELSE c2

\* all(): install(), then deploy() if create() returned True
all(c, localeSet, cloned, order, rev, pid) ==
    deploy(create(install(c, localeSet), cloned), order, rev, pid)

Install ==
    \E localeSet \in BOOLEAN :
        \E k \in FailPoints(install(Start(0), localeSet)) :
            Finish("install", "", install(Start(k), localeSet))

\* the cloned revision is an input of the runs in which the clone succeeds
Create ==
    \E k \in FailPoints(create(Start(0), head)) :
        IF Ok(create(Start(k), head))
        THEN \E rev \in Revs : Finish("create", "", create(Start(k), rev))
        ELSE Finish("create", "", create(Start(k), head))

Restart ==
    \E pid \in BOOLEAN :
        \E k \in FailPoints(restart(Start(0), pid)) :
            Finish("restart", "", restart(Start(k), pid))

\* the pulled revision and the pid file are inputs of the runs that reach them
Deploy ==
    \E order \in Orders(DOMAIN templates) :
        \E k \in FailPoints(deploy(Start(0), order, head, TRUE)) :
            IF Ok(pull(record_commit(deploy_loop(Start(k), order)), head))
            THEN \E rev \in Revs, pid \in BOOLEAN :
                    /\ rev >= head
                    /\ Finish("deploy", "", deploy(Start(k), order, rev, pid))
            ELSE Finish("deploy", "", deploy(Start(k), order, head, TRUE))

Rollback ==
    \E pid \in BOOLEAN :
        \E k \in FailPoints(rollback(Start(0), pid)) :
            Finish("rollback", "", rollback(Start(k), pid))

AnOrder == CHOOSE o \in Orders(DOMAIN templates) : TRUE

\* the runs of all() that end in install() or create(), whose other inputs
\* are not read
AllWithoutDeploy ==
    \E localeSet \in BOOLEAN :
        \E k \in FailPoints(create(install(Start(0), localeSet), head)) :
            /\ ~Ok(create(install(Start(k), localeSet), head))
            /\ Finish("all", "", all(Start(k), localeSet, head, AnOrder, head, TRUE))

\* the runs of all() that get to deploy(); the pulled revision and the pid
\* file are inputs of the runs that reach them
AllWithDeploy ==
    /\ Ok(create(Start(0), head))
    /\ \E localeSet \in BOOLEAN, cloned \in Revs, order \in Orders(DOMAIN templates) :
        \E k \in FailPoints(all(Start(0), localeSet, cloned, order, cloned, TRUE)) :
            /\ Ok(create(install(Start(k), localeSet), cloned))
            /\ IF Ok(pull(record_commit(deploy_loop(create(install(Start(k), localeSet),
                                                          cloned), order)), cloned))
               THEN \E rev \in Revs, pid \in BOOLEAN :
                       /\ rev >= cloned
                       /\ Finish("all", "", all(Start(k), localeSet, cloned, order, rev, pid))
               ELSE Finish("all", "", all(Start(k), localeSet, cloned, order, cloned, TRUE))

All == AllWithoutDeploy \/ AllWithDeploy

-----------------------------------------------------------------------------
(* The program: the registry of fabfile.py and every task *)

\* local template files
LocalFiles == {<<"a", "\n">>}

\* remote files (besides none)
RemoteFiles == {<<"a">>, <<"b">>}

\* the states the tasks may find, for a registry
InitWith(registry) ==
    /\ templates = registry
    /\ local \in [DOMAIN templates -> LocalFiles]
    /\ remote \in [DOMAIN templates ->
                    {[exists |-> FALSE, data |-> <<>>]}
                    \cup {[exists |-> TRUE, data |-> d] : d \in RemoteFiles}]
    /\ env = envInit
    /\ projExists \in BOOLEAN
    /\ head = 0
    /\ lastCommit = NoCommit
    /\ last = NoTask
    /\ remote_data = <<>>
    /\ local_data = <<>>
    /\ decision = "none"

Init == InitWith(templatesInit)

Next ==
    \/ \E name \in DOMAIN templates : Sync(name)
    \/ Remove
    \/ Install
    \/ Create
    \/ Restart
    \/ Deploy
    \/ Rollback
    \/ All

Spec == Init /\ [][Next]_vars

\* the same tasks over a registry whose nginx descriptor has an owner and a
\* mode as well
templatesOwner ==
    [templatesInit EXCEPT
        !.nginx = [local_path |-> templatesInit.nginx.local_path,
                   remote_path |-> templatesInit.nginx.remote_path,
                   reload_command |-> templatesInit.nginx.reload_command,
                   owner |-> <<"www-data">>,
                   mode |-> <<"640">>]]

InitOwner == InitWith(templatesOwner)

SpecOwner == InitOwner /\ [][Next]_vars

-----------------------------------------------------------------------------
(* Change detection on its own *)

CleanAlphabet == {"a", " ", "\n", "\r"}

RECURSIVE StringsUpTo(_)
StringsUpTo(n) ==
    IF n = 0 THEN {<<>>}
    ELSE LET S == StringsUpTo(n - 1)
         IN  S \cup {Append(s, ch) : s \in S, ch \in CleanAlphabet}

\* every short string, and the strings of the documented examples
CleanInputs ==
    StringsUpTo(MaxCleanLen)
    \cup {<<"a", "\r", "\n", "b">>, <<"a", "\n", "b">>, <<"a", "\n", "b", "\n", "c">>}

InitClean ==
    /\ templates = templatesInit
    /\ local = [n \in DOMAIN templates |-> <<>>]
    /\ remote = [n \in DOMAIN templates |-> [exists |-> FALSE, data |-> <<>>]]
    /\ env = envInit
    /\ projExists = FALSE
    /\ head = 0
    /\ lastCommit = NoCommit
    /\ last = NoTask
    /\ remote_data \in CleanInputs
    /\ local_data \in CleanInputs
    /\ decision = "none"

\* if clean(remote_data) == clean(local_data): return; otherwise the upload
Detect ==
    /\ decision = "none"
    /\ decision' = IF changed(remote_data, local_data) THEN "upload" ELSE "return"
    /\ UNCHANGED <<templates, local, remote, env, projExists, head, lastCommit, last,
                   remote_data, local_data>>

NextClean == Detect

SpecClean == InitClean /\ [][NextClean]_vars

-----------------------------------------------------------------------------
(* Reading the remote calls of the task run last *)

Names == DOMAIN templates

\* where in the log the command cmd was issued for arg
At(cmd, arg) ==
    {i \in 1..Len(last.log) : last.log[i].cmd = cmd /\ last.log[i].arg = arg}

Issued(cmd, arg) == At(cmd, arg) # {}

Done(cmd, arg) == \E i \in At(cmd, arg) : last.log[i].out = "ok"

Failed(cmd, arg) == \E i \in At(cmd, arg) : last.log[i].out = "failed"

\* the last call was upload_template_and_reload(n), on its own
SyncOf(n) == last.cmd = "sync" /\ last.arg = n

\* the call found no file at the remote path
FoundAbsent(n) == \E i \in At("test -e", n) : last.log[i].out = "False"

\* the local template as the call formats it
Rendered(n) == Format(local[n], env)

-----------------------------------------------------------------------------
(* Claims *)

\* C1: a call of upload_template_and_reload that follows, with nothing in
\* between, a call for the same template that returned Unchanged issues no
\* upload and no reload command, and returns Unchanged as well (unless its
\* own remote read fails, which leaves the call without a result).
C1_Idempotent ==
    \A n \in Names :
        (SyncOf(n) /\ last.before = "Unchanged") =>
            /\ ~Issued("upload_template", n)
            /\ ~Issued("reload_command", n)
            /\ \/ last.exc = "none" /\ last.result[n] = "Unchanged"
               \/ last.exc = "abort" /\ Failed("cat", n)

\* a second call in a row, both Unchanged, over a remote file that is not
\* byte for byte the rendered template
C1_Witness ==
    \E n \in Names :
        /\ SyncOf(n) /\ last.before = "Unchanged"
        /\ last.exc = "none" /\ last.result[n] = "Unchanged"
        /\ remote[n].exists /\ remote[n].data # Rendered(n)

\* C2: in every task, for a template with a reload command, the reload
\* command is issued exactly once by a call that uploaded, and not at all by
\* a call that did not (a call that returned Unchanged among them).
C2_ReloadOncePerChange ==
    \A n \in Names :
        get(templates[n], "reload_command") # None =>
            /\ Done("upload_template", n) => Cardinality(At("reload_command", n)) = 1
            /\ ~Done("upload_template", n) => ~Issued("reload_command", n)
            /\ last.result[n] = "Unchanged" => ~Issued("reload_command", n)

\* a deploy in which one template changed, and was reloaded, and the other
\* did not
C2_Witness ==
    \E n, m \in Names :
        /\ last.cmd = "deploy"
        /\ Done("upload_template", n) /\ Done("reload_command", n)
        /\ last.result[m] = "Unchanged" /\ ~Issued("reload_command", m)

\* whitespace and line breaks, as the documentation of the change detection
\* names them
LineBreaks == {"\n", "\r"}

NoLineBreaks(s) == SelectSeq(s, LAMBDA ch : ch \notin LineBreaks)

Trimmed(s) ==
    LET keep == {i \in 1..Len(s) : s[i] \notin Whitespace}
    IN  IF keep = {} THEN <<>>
        ELSE SubSeq(s, CHOOSE i \in keep : \A j \in keep : i <= j,
                       CHOOSE i \in keep : \A j \in keep : i >= j)

Normalized(s) == Trimmed(NoLineBreaks(s))

\* C3: the change detection returns without an upload exactly when the two
\* strings are equal once every line break is removed and the whitespace at
\* both ends is trimmed; "a\r\nb" against "a\nb" is no upload, and "a\nb"
\* against "a\nb\nc" is an upload.
C3_ChangeDetection ==
    decision # "none" =>
        /\ decision = "return" <=> Normalized(remote_data) = Normalized(local_data)
        /\ (remote_data = <<"a", "\r", "\n", "b">> /\ local_data = <<"a", "\n", "b">>)
               => decision = "return"
        /\ (remote_data = <<"a", "\n", "b">> /\ local_data = <<"a", "\n", "b", "\n", "c">>)
               => decision = "upload"

\* the first documented example, decided
C3_Witness ==
    /\ remote_data = <<"a", "\r", "\n", "b">> /\ local_data = <<"a", "\n", "b">>
    /\ decision = "return"

\* C4 as claimed: a call that finds no file at the remote path and returns
\* has uploaded, and its result is Created, whatever the local template.
C4_Original ==
    \A n \in Names :
        (SyncOf(n) /\ FoundAbsent(n) /\ last.exc = "none") =>
            last.result[n] = "Created" /\ Done("upload_template", n)

\* C4, amended: a call that finds no file at the remote path and returns has
\* uploaded, with the result Created, when the rendered local template is not
\* empty once normalized, and has not uploaded, with the result Unchanged,
\* when it is; the result is never Uploaded.
C4_FirstDeploy ==
    \A n \in Names :
        (SyncOf(n) /\ FoundAbsent(n) /\ last.exc = "none") =>
            IF Normalized(Rendered(n)) = <<>>
            THEN last.result[n] = "Unchanged" /\ ~Issued("upload_template", n)
            ELSE /\ last.result[n] = "Created" /\ Done("upload_template", n)
                 /\ remote[n] = [exists |-> TRUE, data |-> Rendered(n)]

\* a first deploy that created the file
C4_Witness ==
    \E n \in Names :
        /\ SyncOf(n) /\ FoundAbsent(n) /\ last.exc = "none"
        /\ last.result[n] = "Created" /\ Done("upload_template", n)

\* C5: for a descriptor with an owner and a mode, chown and chmod are issued
\* only after the upload of the same call has succeeded, chown before chmod,
\* and neither is issued by a call that returns Unchanged.
C5_OwnerModeAfterUpload ==
    \A n \in Names :
        (SyncOf(n) /\ get(templates[n], "owner") # None /\ get(templates[n], "mode") # None) =>
            /\ \A i \in At("chown", n) \cup At("chmod", n) :
                   \E j \in At("upload_template", n) : j < i /\ last.log[j].out = "ok"
            /\ \A i \in At("chmod", n) : \E j \in At("chown", n) : j < i
            /\ \A i \in At("chown", n) \cup At("chmod", n) : last.log[i].kind = "sudo"
            /\ last.result[n] = "Unchanged" => ~Issued("chown", n) /\ ~Issued("chmod", n)
            /\ (last.exc = "none" /\ last.result[n] # "Unchanged")
                   => Done("chown", n) /\ Done("chmod", n)

\* an upload followed by chown and chmod
C5_Witness ==
    \E n \in Names :
        /\ SyncOf(n) /\ get(templates[n], "owner") # None /\ get(templates[n], "mode") # None
        /\ Done("upload_template", n) /\ Done("chown", n) /\ Done("chmod", n)

\* C6: a deploy issues the recording of the revision before the pull, and
\* what a deploy that pulled leaves in last.commit is the revision that was
\* checked out when it began; nothing but a deploy (alone or in all) changes
\* last.commit; a rollback that checks out leaves the recorded revision
\* checked out, keeps the record, and then issues the restart.
C6_RollbackToRecorded ==
    [][/\ last'.cmd \in {"deploy", "all"} =>
              \A j \in At(Pull, "")' :
                  \E i \in At(Record, "")' : i < j /\ last'.log[i].out = "ok"
       /\ (last'.cmd = "deploy" /\ Done(Pull, "")') => lastCommit' = head
       /\ (last'.cmd = "all" /\ Done(Pull, "")') => lastCommit' \in Revs /\ lastCommit' <= head'
       /\ lastCommit' # lastCommit => last'.cmd \in {"deploy", "all"} /\ Done(Record, "")'
       /\ (last'.cmd = "rollback" /\ Done(Checkout, "")' /\ lastCommit # NoCommit) =>
              /\ head' = lastCommit
              /\ lastCommit' = lastCommit
              /\ \E i \in At(Checkout, "")' :
                     \E j \in 1..Len(last'.log) :
                         i < j /\ last'.log[j].cmd \in RestartCmds
       /\ last'.cmd = "rollback" =>
              \A j \in 1..Len(last'.log) :
                  last'.log[j].cmd \in RestartCmds => Done(Checkout, "")'
      ]_vars

\* a rollback that went back from a later revision to the recorded one
C6_Witness ==
    /\ last.cmd = "rollback" /\ last.exc = "none"
    /\ Done(Checkout, "")
    /\ lastCommit # NoCommit /\ head = lastCommit /\ head < MaxRev

\* C7: in a run of all, the calls of install come first, then the clone of
\* create, then the calls of deploy; the clone is issued only after install
\* has finished, and no call of deploy is issued unless the clone succeeded.
C7_AllInOrder ==
    last.cmd = "all" =>
        LET L == last.log
            inst == {i \in 1..Len(L) : L[i].cmd \in InstallCmds}
            clone == At("git clone", "")
            dep == {i \in 1..Len(L) : L[i].cmd \notin InstallCmds \cup {"git clone"}}
        IN  /\ L # <<>> /\ L[1].cmd = "cat /etc/default/locale"
            /\ \A i \in inst : \A j \in clone \cup dep : i < j
            /\ \A i \in clone : \A j \in dep : i < j
            /\ Cardinality(clone) <= 1
            /\ clone # {} => Done("apt-get install", "")
            /\ dep # {} => Done("git clone", "")
            /\ Failed("git clone", "") => dep = {}

\* a run of all whose create failed over an existing project path
C7_Witness ==
    /\ last.cmd = "all" /\ Failed("git clone", "") /\ projExists
    /\ Done("apt-get install", "")

\* C8: a remote call that fails is the last call of its task, which ends
\* aborted; what the calls before it did stays done (an uploaded file is in
\* place, also when chown or chmod fails after it; a cloned project is there;
\* a recorded revision stays recorded); a reload command that fails in a deploy leaves the uploaded file in place and
\* no later template is looked at, nothing is recorded or pulled, and nothing
\* is restarted.
C8_AbortKeepsEarlierSteps ==
    /\ \A i \in 1..Len(last.log) :
           last.log[i].out = "failed" => i = Len(last.log) /\ last.exc = "abort"
    /\ \A n \in Names :
           (last.cmd \in {"sync", "deploy", "all"} /\ Done("upload_template", n)) =>
               remote[n] = [exists |-> TRUE, data |-> Rendered(n)]
    /\ Done("git clone", "") => projExists
    /\ Done(Record, "") => lastCommit # NoCommit
    /\ \A n \in Names :
           (Failed("chown", n) \/ Failed("chmod", n)) =>
               /\ remote[n] = [exists |-> TRUE, data |-> Rendered(n)]
               /\ ~Issued("reload_command", n)
    /\ \A n \in Names :
           (last.cmd \in {"deploy", "all"} /\ Failed("reload_command", n)) =>
               /\ Done("upload_template", n)
               /\ remote[n] = [exists |-> TRUE, data |-> Rendered(n)]
               /\ ~Issued(Record, "") /\ ~Issued(Pull, "")
               /\ \A i \in 1..Len(last.log) : last.log[i].cmd \notin RestartCmds
               /\ \A m \in Names :
                      \A i \in At("test -e", m) : \A j \in At("reload_command", n) : i < j

\* a deploy whose first template's reload command failed, after its upload,
\* chown and chmod: the file is up, the other template was not looked at
C8_Witness ==
    \E n, m \in Names :
        /\ last.cmd = "deploy" /\ Failed("reload_command", n)
        /\ Done("chown", n) /\ Done("chmod", n)
        /\ remote[n] = [exists |-> TRUE, data |-> Rendered(n)]
        /\ m # n /\ ~Issued("test -e", m) /\ remote[m].data # Rendered(m)

\* C9 as claimed: a call that gets to the local template, finds the marker in
\* it and has no secret yet computes the secret and caches it in env.
C9_SecretComputedAndCached ==
    \A n \in Names :
        (SyncOf(n) /\ HasMarker(local[n]) /\ last.exc # "abort") =>
            "db_pass" \in DOMAIN env

\* C10: a call of upload_template_and_reload that follows, with nothing in
\* between, a call for the same template that uploaded and returned finds
\* the remote file equal to the rendered template once both are normalized,
\* issues no upload, chown, chmod or reload command, and returns Unchanged
\* (unless its own remote read fails).
C10_Converges ==
    \A n \in Names :
        (SyncOf(n) /\ last.before \in {"Uploaded", "Created"}) =>
            /\ remote[n].exists
            /\ Normalized(remote[n].data) = Normalized(Rendered(n))
            /\ \A cmd \in {"upload_template", "chown", "chmod", "reload_command"} :
                   ~Issued(cmd, n)
            /\ \/ last.exc = "none" /\ last.result[n] = "Unchanged"
               \/ last.exc = "abort" /\ Failed("cat", n)

\* a call right after an upload of a template with a placeholder: Unchanged
C10_Witness ==
    \E n \in Names :
        /\ SyncOf(n) /\ last.before \in {"Uploaded", "Created"}
        /\ last.exc = "none" /\ last.result[n] = "Unchanged"
        /\ Rendered(n) # local[n]

=============================================================================
